---- MODULE Spec2Model ----
(***************************************************************************)
(* A model of themis (src/src/main.rs): a photo-mosaic generator.  The     *)
(* tiles of a directory are loaded into a catalog (load_images), and every *)
(* file of the input directory is turned into a mosaic: its distinct       *)
(* colours are matched to catalog tiles (pick_image_for_pixel, a rayon     *)
(* parallel min_by_key over the catalog), the tiles are copied into a      *)
(* canvas, and the canvas is saved.                                        *)
(*                                                                         *)
(* Images are w x h buffers of RGBA colours; the external image library    *)
(* (decode, thumbnail, save) is modelled by its interface.  The parallel   *)
(* scan is modelled by the set of results of every split tree that rayon's *)
(* adaptive splitter can build.                                            *)
(***************************************************************************)
EXTENDS Integers, Sequences, FiniteSets, Bags, TLC

\* ------------------------------------------------------------------ bounds
MaxTiles  == 3   \* files in the tile directory
MaxInputs == 2   \* files in the input directory
MosaicSize == 2  \* the value of --mosaic-size
TileSize  == 2   \* the value of --tile-size

\* ------------------------------------------------------------------ colours
\* The colours that pixels take in the model, and their Rgba<u8> channels
\* <<r, g, b, a>>.  Dark and Light are the colours of the tiles, opaque or
\* faint; Mid, as far from Dark as from Light, and Bright, nearer to Light, are
\* the colours of the inputs; Clear is the zeroed pixel of a new buffer.
Dark       == "dark"
DarkFaint  == "dark faint"
Light      == "light"
LightFaint == "light faint"
Mid        == "mid"
Bright     == "bright"
Clear      == "clear"

Rgba(c) ==
    CASE c = Dark       -> <<0, 90, 0, 255>>
      [] c = DarkFaint  -> <<0, 90, 0, 128>>
      [] c = Light      -> <<0, 110, 0, 255>>
      [] c = LightFaint -> <<0, 110, 0, 128>>
      [] c = Mid        -> <<0, 100, 0, 255>>
      [] c = Bright     -> <<0, 120, 0, 255>>
      [] OTHER          -> <<0, 0, 0, 0>>

\* ------------------------------------------------------------------ images
\* A decoded image: [w, h, px], px[y][x] for 0 <= x < w, 0 <= y < h.
Image(w, h, F(_, _)) ==
    [w |-> w, h |-> h, px |-> [y \in 0 .. h - 1 |-> [x \in 0 .. w - 1 |-> F(x, y)]]]

\* The pictures a file can hold; 0 is a file that does not decode.
\*   tiles   1: a top row of Dark over DarkFaint            (4 x 4)
\*           2: a left column of Light beside LightFaint    (4 x 4)
\*   inputs  3: solid Mid                                   (4 x 4)
\*           4: a left column of Mid beside Bright          (4 x 2)
Undecodable   == 0
TilePictures  == {1, 2}
InputPictures == {3, 4}

OrigDims(pic) == IF pic = 4 THEN <<4, 2>> ELSE <<4, 4>>

PictureAt(pic, x, y) ==
    CASE pic = 1 -> IF y = 0 THEN Dark ELSE DarkFaint
      [] pic = 2 -> IF x = 0 THEN Light ELSE LightFaint
      [] pic = 3 -> Mid
      [] OTHER   -> IF x = 0 THEN Mid ELSE Bright

\* image::open(path): a one-element sequence holding the picture, or <<>>.
open(file) == IF file.content = Undecodable THEN <<>> ELSE <<file.content>>

\* DynamicImage::thumbnail_exact(w, h): exactly w x h.
thumbnail_exact(pic, w, h) == Image(w, h, LAMBDA x, y : PictureAt(pic, x, y))

Max(a, b) == IF a > b THEN a ELSE b

\* round(n / d) for n >= 0, d > 0
RoundDiv(n, d) == (2 * n + d) \div (2 * d)

\* DynamicImage::thumbnail(w, h): the largest size within w x h that keeps the
\* aspect ratio (image::math::utils::resize_dimensions with fill = false).
thumbnail(pic, nw, nh) ==
    LET ow == OrigDims(pic)[1]
        oh == OrigDims(pic)[2]
        byWidth == nw * oh <= nh * ow    \* wratio <= hratio
        w == IF byWidth THEN Max(RoundDiv(ow * nw, ow), 1) ELSE Max(RoundDiv(ow * nh, oh), 1)
        h == IF byWidth THEN Max(RoundDiv(oh * nw, ow), 1) ELSE Max(RoundDiv(oh * nh, oh), 1)
    IN  Image(w, h, LAMBDA x, y : PictureAt(pic, x, y))

Coords(img) == {<<x, y>> : x \in 0 .. img.w - 1, y \in 0 .. img.h - 1}

\* ------------------------------------------------------------------ average_color
RECURSIVE SumSq(_, _, _)
SumSq(img, ch, n) ==
    IF n = 0 THEN 0
    ELSE LET x == (n - 1) % img.w
             y == (n - 1) \div img.w
             c == Rgba(img.px[y][x])[ch]
         IN  c * c + SumSq(img, ch, n - 1)

\* (sum / count).sqrt() as u8: the largest k <= 255 with k * k * count <= sum,
\* found by bisection of lo .. hi.
RECURSIVE RootMeanIn(_, _, _, _)
RootMeanIn(sum, count, lo, hi) ==
    IF lo = hi THEN lo
    ELSE LET mid == (lo + hi + 1) \div 2
         IN  IF mid * mid * count <= sum
             THEN RootMeanIn(sum, count, mid, hi)
             ELSE RootMeanIn(sum, count, lo, mid - 1)

RootMean(sum, count) == RootMeanIn(sum, count, 0, 255)

average_color(img) ==
    LET pixel_count == img.w * img.h
    IN  [ch \in 1 .. 4 |-> RootMean(SumSq(img, ch, pixel_count), pixel_count)]

\* ------------------------------------------------------------------ distance
\* distance with the red difference taken once instead of squared.
distance_unsquared(c1, c2) ==
    LET rmean == (c1[1] + c2[1]) \div 2
        r == c1[1] - c2[1]
        g == c1[2] - c2[2]
        b == c1[3] - c2[3]
    IN  (((512 + rmean) * r) \div 256) + 4 * g * g + (((767 - rmean) * b * b) \div 256)

\* >> 8 on a non-negative i64 is \div 256; the alpha channel is not read.
distance(c1, c2) ==
    LET rmean == (c1[1] + c2[1]) \div 2
        r == c1[1] - c2[1]
        g == c1[2] - c2[2]
        b == c1[3] - c2[3]
    IN  (((512 + rmean) * r * r) \div 256) + 4 * g * g + (((767 - rmean) * b * b) \div 256)

\* ------------------------------------------------------------------ pick_image_for_pixel
\* rayon's min_by_key maps every item to (key, item) and reduces with min_key,
\* which keeps its left argument unless the right one is strictly smaller.
\* An item is <<key, index in the catalog>>.
\* min_key keeping the right argument on equal keys.
min_key_last(a, b) == IF a[1] < b[1] THEN a ELSE b

\* min_key keeping the greater key (max_by_key).
min_key_greatest(a, b) == IF a[1] < b[1] THEN b ELSE a

min_key(a, b) == IF a[1] > b[1] THEN b ELSE a

Keyed(pixel, possible_tiles, i) == <<distance(possible_tiles[i].avg, Rgba(pixel)), i>>

\* One worker folding the items lo .. hi of the catalog in order.
RECURSIVE FoldWith(_, _, _, _)
FoldWith(pixel, possible_tiles, lo, hi) ==
    IF lo = hi THEN Keyed(pixel, possible_tiles, lo)
    ELSE min_key(FoldWith(pixel, possible_tiles, lo, hi - 1), Keyed(pixel, possible_tiles, hi))

\* A reduction that hands the two halves to the operator in either order.
RECURSIVE ReduceWithUnordered(_, _, _, _)
ReduceWithUnordered(pixel, possible_tiles, lo, hi) ==
    {FoldWith(pixel, possible_tiles, lo, hi)} \cup
    IF hi > lo
    THEN LET mid == lo + (hi - lo + 1) \div 2
         IN  UNION {{min_key(a, b), min_key(b, a)} :
                      a \in ReduceWithUnordered(pixel, possible_tiles, lo, mid - 1),
                      b \in ReduceWithUnordered(pixel, possible_tiles, mid, hi)}
    ELSE {}

\* reduce_with over the slice lo .. hi: the splitter either lets one worker fold
\* the range or splits it at its midpoint and reduces the two results, left
\* then right.  The set holds the result of every split tree.
RECURSIVE ReduceWith(_, _, _, _)
ReduceWith(pixel, possible_tiles, lo, hi) ==
    {FoldWith(pixel, possible_tiles, lo, hi)} \cup
    IF hi > lo
    THEN LET mid == lo + (hi - lo + 1) \div 2
         IN  {min_key(a, b) : a \in ReduceWith(pixel, possible_tiles, lo, mid - 1),
                              b \in ReduceWith(pixel, possible_tiles, mid, hi)}
    ELSE {}

\* The results the call can produce: <<>> is None, <<i>> is Some(&possible_tiles[i].img).
pick_image_for_pixel(pixel, possible_tiles) ==
    IF Len(possible_tiles) = 0 THEN {<<>>}
    ELSE {<<item[2]>> : item \in ReduceWith(pixel, possible_tiles, 1, Len(possible_tiles))}

\* ------------------------------------------------------------------ load_images
\* filter_map over the directory entries, collected in directory order: one
\* (img, avg) per entry that decodes.  read_dir's failure is the only Err.
RECURSIVE LoadEntries(_, _)
LoadEntries(entries, tile_side) ==
    IF entries = <<>> THEN <<>>
    ELSE LET pic == open(Head(entries))
             rest == LoadEntries(Tail(entries), tile_side)
         IN  IF pic = <<>> THEN rest
             ELSE LET img == thumbnail_exact(pic[1], tile_side, tile_side)
                  IN  <<[img |-> img, avg |-> average_color(img)]>> \o rest

\* load_images returning Err as soon as one entry does not decode.
load_images_strict(dir, tile_side) ==
    IF ~dir.readable \/ \E i \in 1 .. Len(dir.entries) : open(dir.entries[i]) = <<>>
    THEN [ok |-> FALSE, tiles |-> <<>>]
    ELSE [ok |-> TRUE, tiles |-> LoadEntries(dir.entries, tile_side)]

load_images(dir, tile_side) ==
    IF ~dir.readable THEN [ok |-> FALSE, tiles |-> <<>>]
    ELSE [ok |-> TRUE, tiles |-> LoadEntries(dir.entries, tile_side)]

\* ------------------------------------------------------------------ the file system
\* A file name is <<stem, extension>>.  The i-th name of the input directory:
\* 1.png, 2.png, 1.jpg, 2.jpg, ...: two names share each stem.
NameOf(i) == <<((i - 1) % 2) + 1, IF ((i - 1) \div 2) % 2 = 0 THEN "png" ELSE "jpg">>

file_stem(name) == name[1]

\* output_dir.join("{stem}.mosaic{mosaic_size}.png")
OutputPath(name, mosaic_size) == <<file_stem(name), mosaic_size>>

OutputPaths == {<<NameOf(i)[1], MosaicSize>> : i \in 1 .. MaxInputs}

\* A file of the output directory is <<>> when absent, else <<[kind, data]>>.

RECURSIVE SeqsUpTo(_, _)
SeqsUpTo(S, n) ==
    IF n = 0 THEN {<<>>}
    ELSE LET shorter == SeqsUpTo(S, n - 1)
         IN  shorter \cup {Append(q, e) : q \in {r \in shorter : Len(r) = n - 1}, e \in S}

TileDirs ==
    {[readable |-> FALSE, entries |-> <<>>]} \cup
    {[readable |-> TRUE, entries |-> [i \in 1 .. Len(q) |-> [content |-> q[i]]]] :
        q \in SeqsUpTo(TilePictures \cup {Undecodable}, MaxTiles)}

InputDirs ==
    {[i \in 1 .. Len(q) |-> [name |-> NameOf(i), content |-> q[i]]] :
        q \in SeqsUpTo(InputPictures, MaxInputs)}

\* ------------------------------------------------------------------ state
VARIABLES
    tiles_dir,        \* the tile directory
    input_dir,        \* the entries of the input directory, in listing order
    keep_aspect_ratio,
    fs,               \* the output directory: output path -> <<>> or <<file>>
    pc,               \* "start", "loop", "match", "compose", "done", "error: <call>",
                      \* "panic: unwrap"; "distance", "measured" in SpecDistance
    possible_tiles,   \* the catalog: sequence of [img, avg]
    idx,              \* position of the for loop in input_dir
    img,              \* the resized target image
    unique_pixels,    \* the colours still to be matched (a bag)
    tiles,            \* colour -> index of its tile in possible_tiles
    mosaic,           \* the canvas
    pos,              \* pixels of img already copied, in img.pixels() order
    painted,          \* history: the canvas cells written so far
    overwrites,       \* history: writes to a cell that was already written
    matchCalls,       \* history: calls of pick_image_for_pixel for this image
    written,          \* history: output paths saved by this run
    run,              \* history: "first" or "second" run of the program
    prev,             \* history: the output directory the previous run left
    colours,          \* SpecDistance: the two colours given to distance
    score             \* SpecDistance: <<distance(a, b), distance(b, a)>>, or <<>>

vars == <<tiles_dir, input_dir, keep_aspect_ratio, fs, pc, possible_tiles, idx, img,
          unique_pixels, tiles, mosaic, pos, painted, overwrites, matchCalls, written, run,
          prev, colours, score>>

env == <<tiles_dir, input_dir, keep_aspect_ratio, colours, score>>

NoImage == Image(0, 0, LAMBDA x, y : Clear)
NoMap   == [c \in {} |-> 0]

Fresh ==
    /\ pc = "start"
    /\ possible_tiles = <<>>
    /\ idx = 1
    /\ img = NoImage
    /\ unique_pixels = EmptyBag
    /\ tiles = NoMap
    /\ mosaic = NoImage
    /\ pos = 0
    /\ painted = {}
    /\ overwrites = 0
    /\ matchCalls = 0
    /\ written = {}

Init ==
    /\ tiles_dir \in TileDirs
    /\ input_dir \in InputDirs
    /\ keep_aspect_ratio \in BOOLEAN
    /\ fs = [p \in OutputPaths |-> <<>>]
    /\ Fresh
    /\ run = "first"
    /\ prev = [fs |-> fs, written |-> {}, cleared |-> FALSE]
    /\ colours = <<>>
    /\ score = <<>>

\* ------------------------------------------------------------------ main
\* An existence test that never finds the file.
exists_never(path) == FALSE

exists(path) == fs[path] # <<>>

CurrentOutput == OutputPath(input_dir[idx].name, MosaicSize)

\* The colours of the image, each as often as it occurs (a Vec, not a HashSet).
AllPixels(image) ==
    LET cs == {image.px[c[2]][c[1]] : c \in Coords(image)}
    IN  [p \in cs |-> Cardinality({c \in Coords(image) : image.px[c[2]][c[1]] = p})]

\* The colours of the image, each once (collect::<HashSet<_>>()).
UniquePixels(image) == SetToBag({image.px[c[2]][c[1]] : c \in Coords(image)})

\* DynamicImage::new_rgba8(w, h): a zeroed buffer.
new_rgba8(w, h) == Image(w, h, LAMBDA x, y : Clear)

\* copy_from putting the pixels of other at the transposed place.
copy_from_transposed(canvas, other, x0, y0) ==
    IF canvas.w < other.w + x0 \/ canvas.h < other.h + y0
    THEN [ok |-> FALSE, image |-> canvas]
    ELSE [ok |-> TRUE,
          image |-> [canvas EXCEPT !.px =
              [y \in 0 .. canvas.h - 1 |->
                  IF y0 <= y /\ y < y0 + other.h
                  THEN [x \in 0 .. canvas.w - 1 |->
                           IF x0 <= x /\ x < x0 + other.w
                           THEN other.px[x - x0][y - y0]
                           ELSE canvas.px[y][x]]
                  ELSE canvas.px[y]]]]

\* GenericImage::copy_from(other, x, y): Err when other does not fit at (x, y),
\* else every pixel of other is put at its place.
copy_from(canvas, other, x0, y0) ==
    IF canvas.w < other.w + x0 \/ canvas.h < other.h + y0
    THEN [ok |-> FALSE, image |-> canvas]
    ELSE [ok |-> TRUE,
          image |-> [canvas EXCEPT !.px =
              [y \in 0 .. canvas.h - 1 |->
                  IF y0 <= y /\ y < y0 + other.h
                  THEN [x \in 0 .. canvas.w - 1 |->
                           IF x0 <= x /\ x < x0 + other.w
                           THEN other.px[y - y0][x - x0]
                           ELSE canvas.px[y][x]]
                  ELSE canvas.px[y]]]]

Region(other, x0, y0) ==
    {<<x, y>> : x \in x0 .. x0 + other.w - 1, y \in y0 .. y0 + other.h - 1}

\* lines 134-138: the catalog is loaded, then the input directory is listed.
Start ==
    /\ pc = "start"
    /\ LET loaded == load_images(tiles_dir, TileSize)
       IN  IF loaded.ok
           THEN /\ possible_tiles' = loaded.tiles
                /\ pc' = "loop"
           ELSE /\ possible_tiles' = possible_tiles
                /\ pc' = "error: read_dir"
    /\ UNCHANGED <<env, fs, idx, img, unique_pixels, tiles, mosaic, pos, painted, overwrites,
                   matchCalls, written, run, prev>>

\* line 188: the loop is over, Ok(()).
Finish ==
    /\ pc = "loop"
    /\ idx > Len(input_dir)
    /\ pc' = "done"
    /\ UNCHANGED <<env, fs, possible_tiles, idx, img, unique_pixels, tiles, mosaic, pos,
                   painted, overwrites, matchCalls, written, run, prev>>

\* lines 148-150: the output exists, continue.
Skip ==
    /\ pc = "loop"
    /\ idx <= Len(input_dir)
    /\ exists(CurrentOutput)
    /\ idx' = idx + 1
    /\ UNCHANGED <<env, fs, pc, possible_tiles, img, unique_pixels, tiles, mosaic, pos,
                   painted, overwrites, matchCalls, written, run, prev>>

\* lines 152-164: the input is decoded and resized, and its distinct colours are
\* collected.
Open ==
    /\ pc = "loop"
    /\ idx <= Len(input_dir)
    /\ ~exists(CurrentOutput)
    /\ LET pic == input_dir[idx].content
           small == IF keep_aspect_ratio
                    THEN thumbnail(pic, MosaicSize, MosaicSize)
                    ELSE thumbnail_exact(pic, MosaicSize, MosaicSize)
       IN  /\ img' = small
           /\ unique_pixels' = UniquePixels(small)
    /\ tiles' = NoMap
    /\ matchCalls' = 0
    /\ pc' = "match"
    /\ UNCHANGED <<env, fs, possible_tiles, idx, mosaic, pos, painted, overwrites, written,
                   run, prev>>

\* line 152: image::open returns Err (the input does not decode or cannot be
\* read) and ? ends the run.
OpenFails ==
    /\ pc = "loop"
    /\ idx <= Len(input_dir)
    /\ ~exists(CurrentOutput)
    /\ pc' = "error: open"
    /\ UNCHANGED <<env, fs, possible_tiles, idx, img, unique_pixels, tiles, mosaic, pos,
                   painted, overwrites, matchCalls, written, run, prev>>

\* lines 165-172: one colour is matched by some worker, with some split of the
\* catalog scan; None is filtered out, Some is inserted into the map.
Match(pixel) ==
    /\ pc = "match"
    /\ BagIn(pixel, unique_pixels)
    /\ \E tile \in pick_image_for_pixel(pixel, possible_tiles) :
          tiles' = IF tile = <<>> THEN tiles
                   ELSE [c \in DOMAIN tiles \cup {pixel} |->
                            IF c = pixel THEN tile[1] ELSE tiles[c]]
    /\ unique_pixels' = unique_pixels (-) SetToBag({pixel})
    /\ matchCalls' = matchCalls + 1
    /\ UNCHANGED <<env, fs, pc, possible_tiles, idx, img, mosaic, pos, painted, overwrites,
                   written, run, prev>>

\* line 175: every colour has been through the matcher; the canvas is allocated.
NewCanvas ==
    /\ pc = "match"
    /\ unique_pixels = EmptyBag
    /\ mosaic' = new_rgba8(img.w * TileSize, img.h * TileSize)
    /\ painted' = {}
    /\ overwrites' = 0
    /\ pos' = 0
    /\ pc' = "compose"
    /\ UNCHANGED <<env, fs, possible_tiles, idx, img, unique_pixels, tiles, matchCalls,
                   written, run, prev>>

\* The copy loop leaving the cell of a colour without a tile blank (if let
\* Some(tile) in place of unwrap()).
CopyTileSkipsMissing ==
    /\ pc = "compose"
    /\ pos < img.w * img.h
    /\ LET x == pos % img.w
           y == pos \div img.w
           pixel == img.px[y][x]
       IN  IF pixel \notin DOMAIN tiles
           THEN /\ pos' = pos + 1
                /\ UNCHANGED <<pc, mosaic, painted, overwrites>>
           ELSE LET tile == possible_tiles[tiles[pixel]].img
                    copied == copy_from(mosaic, tile, x * TileSize, y * TileSize)
                IN  /\ mosaic' = copied.image
                    /\ pos' = pos + 1
                    /\ UNCHANGED <<pc, painted, overwrites>>
    /\ UNCHANGED <<env, fs, possible_tiles, idx, img, unique_pixels, tiles, matchCalls,
                   written, run, prev>>

\* lines 176-181: the tile of the next pixel (row-major) is copied into the
\* canvas; unwrap() panics on a colour without a tile, ? returns copy_from's Err.
CopyTile ==
    /\ pc = "compose"
    /\ pos < img.w * img.h
    /\ LET x == pos % img.w
           y == pos \div img.w
           pixel == img.px[y][x]
       IN  IF pixel \notin DOMAIN tiles
           THEN /\ pc' = "panic: unwrap"
                /\ UNCHANGED <<mosaic, pos, painted, overwrites>>
           ELSE LET tile == possible_tiles[tiles[pixel]].img
                    copied == copy_from(mosaic, tile, x * TileSize, y * TileSize)
                IN  IF ~copied.ok
                    THEN /\ pc' = "error: copy_from"
                         /\ UNCHANGED <<mosaic, pos, painted, overwrites>>
                    ELSE /\ mosaic' = copied.image
                         /\ LET cells == Region(tile, x * TileSize, y * TileSize)
                            IN  /\ painted' = painted \cup cells
                                /\ overwrites' = overwrites + Cardinality(painted \cap cells)
                         /\ pos' = pos + 1
                         /\ pc' = pc
    /\ UNCHANGED <<env, fs, possible_tiles, idx, img, unique_pixels, tiles, matchCalls,
                   written, run, prev>>

\* The canvas saved at any point of the copy loop.
SaveEarly ==
    /\ pc = "compose"
    /\ pos <= img.w * img.h
    /\ fs' = [fs EXCEPT ![CurrentOutput] = <<[kind |-> "mosaic", data |-> mosaic]>>]
    /\ written' = written \cup {CurrentOutput}
    /\ idx' = idx + 1
    /\ pc' = "loop"
    /\ UNCHANGED <<env, possible_tiles, img, unique_pixels, tiles, mosaic, pos, painted,
                   overwrites, matchCalls, run, prev>>

\* line 184: the canvas is saved and the loop goes on.
Save ==
    /\ pc = "compose"
    /\ pos = img.w * img.h
    /\ fs' = [fs EXCEPT ![CurrentOutput] = <<[kind |-> "mosaic", data |-> mosaic]>>]
    /\ written' = written \cup {CurrentOutput}
    /\ idx' = idx + 1
    /\ pc' = "loop"
    /\ UNCHANGED <<env, possible_tiles, img, unique_pixels, tiles, mosaic, pos, painted,
                   overwrites, matchCalls, run, prev>>

\* line 184: save returns Err; the file was not created, or was left incomplete.
SaveFails ==
    /\ pc = "compose"
    /\ pos = img.w * img.h
    /\ \/ fs' = fs
       \/ fs' = [fs EXCEPT ![CurrentOutput] = <<[kind |-> "partial", data |-> NoImage]>>]
    /\ pc' = "error: save"
    /\ UNCHANGED <<env, possible_tiles, idx, img, unique_pixels, tiles, mosaic, pos,
                   painted, overwrites, matchCalls, written, run, prev>>

\* The program is run again on the same directories, after the outputs of the
\* earlier run were removed (clear) or with them in place.
Rerun(clear) ==
    /\ pc = "done"
    /\ run = "first"
    /\ run' = "second"
    /\ prev' = [fs |-> fs, written |-> written, cleared |-> clear]
    /\ fs' = IF clear THEN [p \in OutputPaths |-> <<>>] ELSE fs
    /\ pc' = "start"
    /\ possible_tiles' = <<>>
    /\ idx' = 1
    /\ img' = NoImage
    /\ unique_pixels' = EmptyBag
    /\ tiles' = NoMap
    /\ mosaic' = NoImage
    /\ pos' = 0
    /\ painted' = {}
    /\ overwrites' = 0
    /\ matchCalls' = 0
    /\ written' = {}
    /\ UNCHANGED env

Colours == {Mid, Bright}

Next ==
    \/ Start
    \/ Finish
    \/ Skip
    \/ Open
    \/ OpenFails
    \/ \E pixel \in Colours : Match(pixel)
    \/ NewCanvas
    \/ CopyTile
    \/ Save
    \/ SaveFails
    \/ \E clear \in BOOLEAN : Rerun(clear)

Spec == Init /\ [][Next]_vars

\* ------------------------------------------------------------------ distance alone
\* distance applied to pairs of colours whose channels take the values at and
\* next to the ends and the middle of the u8 range.
Channels == {0, 1, 128, 255}
Samples  == {<<r, g, b, a>> : r \in Channels, g \in Channels, b \in Channels, a \in {0, 255}}

InitDistance ==
    /\ colours \in Samples \X Samples
    /\ score = <<>>
    /\ pc = "distance"
    /\ tiles_dir = [readable |-> TRUE, entries |-> <<>>]
    /\ input_dir = <<>>
    /\ keep_aspect_ratio = FALSE
    /\ fs = [p \in OutputPaths |-> <<>>]
    /\ possible_tiles = <<>>
    /\ idx = 1
    /\ img = NoImage
    /\ unique_pixels = EmptyBag
    /\ tiles = NoMap
    /\ mosaic = NoImage
    /\ pos = 0
    /\ painted = {}
    /\ overwrites = 0
    /\ matchCalls = 0
    /\ written = {}
    /\ run = "first"
    /\ prev = [fs |-> fs, written |-> {}, cleared |-> FALSE]

Measure ==
    /\ pc = "distance"
    /\ score' = <<distance(colours[1], colours[2]), distance(colours[2], colours[1])>>
    /\ pc' = "measured"
    /\ UNCHANGED <<tiles_dir, input_dir, keep_aspect_ratio, colours, fs, possible_tiles, idx,
                   img, unique_pixels, tiles, mosaic, pos, painted, overwrites, matchCalls,
                   written, run, prev>>

SpecDistance == InitDistance /\ [][Measure]_vars

\* ------------------------------------------------------------------ properties
Dist(i, pixel) == distance(possible_tiles[i].avg, Rgba(pixel))

Catalog == 1 .. Len(possible_tiles)

\* The entries of the catalog at the least distance from a colour.
Nearest(pixel) == {i \in Catalog : \A j \in Catalog : Dist(i, pixel) <= Dist(j, pixel)}

\* C1: whenever several tiles of the catalog are at the same least distance from
\* a colour, every result pick_image_for_pixel can produce for a colour still to
\* be matched, whatever the split of the scan, is the earliest of them in catalog
\* order; and so is the tile recorded for every colour matched so far.
C1_EarliestOnTies ==
    /\ \A pixel \in BagToSet(unique_pixels) :
         Cardinality(Nearest(pixel)) > 1 =>
            \A r \in pick_image_for_pixel(pixel, possible_tiles) :
               /\ r # <<>>
               /\ \A j \in Nearest(pixel) : r[1] <= j
    /\ \A pixel \in DOMAIN tiles :
         \A j \in Nearest(pixel) : tiles[pixel] <= j

\* A colour was matched against a catalog of three tiles that all tie at the
\* least distance, the first two with different pixels.
C1_Witness ==
    /\ Len(possible_tiles) = 3
    /\ \E pixel \in DOMAIN tiles :
         /\ Nearest(pixel) = {1, 2, 3}
         /\ tiles[pixel] = 1
         /\ possible_tiles[1].img # possible_tiles[2].img

\* C2: for a non-empty catalog every result of pick_image_for_pixel for a colour
\* still to be matched is Some tile of the catalog and no entry of the catalog is
\* strictly nearer to the colour; the same holds of every entry of the
\* colour-to-tile map.
C2_NearestTile ==
    /\ Len(possible_tiles) > 0 =>
         \A pixel \in BagToSet(unique_pixels) :
            \A r \in pick_image_for_pixel(pixel, possible_tiles) :
               /\ r # <<>>
               /\ r[1] \in Catalog
               /\ \A j \in Catalog : Dist(r[1], pixel) <= Dist(j, pixel)
    /\ \A pixel \in DOMAIN tiles :
         /\ tiles[pixel] \in Catalog
         /\ \A j \in Catalog : Dist(tiles[pixel], pixel) <= Dist(j, pixel)

\* A colour was matched to the last of three tiles, which is strictly nearer
\* than the two before it.
C2_Witness ==
    /\ Len(possible_tiles) = 3
    /\ \E pixel \in DOMAIN tiles :
         /\ tiles[pixel] = 3
         /\ Dist(3, pixel) < Dist(1, pixel)
         /\ Dist(3, pixel) < Dist(2, pixel)

\* C9 as claimed: distance is non-negative, symmetric, and zero only when all
\* four channels of the two colours are equal.
C9_ZeroOnlyWhenEqual ==
    pc = "measured" =>
        /\ score[1] >= 0
        /\ score[1] = score[2]
        /\ (score[1] = 0 => colours[1] = colours[2])

\* C9 amended: distance is non-negative, symmetric, and zero only when the red,
\* green and blue channels of the two colours are equal; alpha is not read.
C9_ZeroOnlyWhenRgbEqual ==
    pc = "measured" =>
        /\ score[1] >= 0
        /\ score[1] = score[2]
        /\ (score[1] = 0 => \A ch \in 1 .. 3 : colours[1][ch] = colours[2][ch])

\* Two colours that differ only in alpha were measured at distance zero.
C9_Witness ==
    /\ pc = "measured"
    /\ score[1] = 0
    /\ colours[1] # colours[2]

NoFiles == [p \in OutputPaths |-> <<>>]

\* The output directory as this run found it.
RunStartFs == IF run = "first" \/ prev.cleared THEN NoFiles ELSE prev.fs

\* C3: a run on the same tile directory and the same inputs, started after the
\* outputs of the first run were removed, writes for every output path that
\* both runs wrote the very canvas the first run wrote, whatever the order of
\* the matches and the split of each catalog scan.
C3_SameCanvas ==
    (run = "second" /\ prev.cleared) =>
        \A p \in written \cap prev.written : fs[p] = prev.fs[p]

\* Both runs ended well and wrote a mosaic for an image one of whose colours has
\* two nearest tiles with different pixels.
C3_Witness ==
    /\ run = "second"
    /\ prev.cleared
    /\ pc = "done"
    /\ written \cap prev.written # {}
    /\ \E pixel \in DOMAIN tiles :
         \E i \in Nearest(pixel), j \in Nearest(pixel) :
            possible_tiles[i].img # possible_tiles[j].img

\* No entry of the (readable) tile directory decodes.
NoTileDecodes ==
    /\ tiles_dir.readable
    /\ \A i \in 1 .. Len(tiles_dir.entries) : open(tiles_dir.entries[i]) = <<>>

Decodable == {i \in 1 .. Len(tiles_dir.entries) : tiles_dir.entries[i].content # Undecodable}

\* The k-th decodable entry of the tile directory, in directory order.
KthDecodable(k) == CHOOSE i \in Decodable : Cardinality({j \in Decodable : j < i}) = k - 1

\* C5: for a readable tile directory load_images returns Ok, and the catalog
\* holds, in directory order, exactly one tile per decodable entry, of size
\* TileSize x TileSize, and nothing for the other entries.
C5_SkipsUndecodable ==
    tiles_dir.readable =>
        /\ pc # "error: read_dir"
        /\ pc # "start" =>
              /\ Len(possible_tiles) = Cardinality(Decodable)
              /\ \A k \in 1 .. Len(possible_tiles) :
                    /\ possible_tiles[k].img.w = TileSize
                    /\ possible_tiles[k].img.h = TileSize
                    /\ possible_tiles[k].img.px =
                          [y \in 0 .. TileSize - 1 |-> [x \in 0 .. TileSize - 1 |->
                              PictureAt(tiles_dir.entries[KthDecodable(k)].content, x, y)]]

\* A directory with an undecodable entry before a decodable one was loaded.
C5_Witness ==
    /\ pc = "loop"
    /\ Len(tiles_dir.entries) = 3
    /\ tiles_dir.entries[1].content = Undecodable
    /\ tiles_dir.entries[2].content # Undecodable
    /\ tiles_dir.entries[3].content = Undecodable
    /\ Len(possible_tiles) = 1

\* C6: a step taken at the top of the loop for an input whose output exists only
\* moves to the next input: nothing is decoded, matched, composed or saved and
\* the output directory is unchanged; and no step of a second run started with
\* the outputs of a successful first run in place changes the output directory
\* or goes on to match.
C6_Step ==
    /\ (pc = "loop" /\ idx <= Len(input_dir) /\ fs[CurrentOutput] # <<>>) =>
          /\ pc' = "loop"
          /\ idx' = idx + 1
          /\ UNCHANGED <<fs, img, unique_pixels, tiles, mosaic, pos, matchCalls, written,
                         possible_tiles>>
    /\ (run = "second" /\ ~prev.cleared) =>
          /\ fs' = fs
          /\ written' = {}
          /\ pc' \in {"loop", "done"}

\* C6, as a property of every step of the program.
C6_SkipsExisting == [][C6_Step]_vars

\* The second run, started with the outputs of the first in place, ended after
\* skipping two inputs whose mosaics the first run wrote.
C6_Witness ==
    /\ run = "second"
    /\ ~prev.cleared
    /\ pc = "done"
    /\ Cardinality(prev.written) = 2
    /\ fs = prev.fs

\* Every tile of the image has been copied into the canvas.
Composed == pc = "compose" /\ pos = img.w * img.h /\ painted = Coords(mosaic)

\* C7: within a run the output directory changes only by a step taken when every
\* pixel of the image has been composed, and it is the output of the current
\* input that changes; and when the run has ended in a failure of open, of the
\* lookup of a tile or of copy_from, the output of the failing input does not
\* exist.
C7_Step ==
    (run' = run /\ fs' # fs) =>
        /\ Composed
        /\ \A p \in OutputPaths : p # CurrentOutput => fs'[p] = fs[p]

C7_NoOutputOnFailure ==
    pc \in {"error: open", "error: copy_from", "panic: unwrap"} => fs[CurrentOutput] = <<>>

\* C7, as a property of every state and every step of the program.
C7_SavedAfterComposition == []C7_NoOutputOnFailure /\ [][C7_Step]_vars

\* One mosaic was saved and the next input failed to decode.
C7_Witness ==
    /\ pc = "error: open"
    /\ written # {}
    /\ \E p \in written : fs[p] # <<>> /\ fs[p][1].kind = "mosaic"
    /\ fs[CurrentOutput] = <<>>

\* The tile matched to the pixel (x, y) of the image.
TileAt(x, y) == possible_tiles[tiles[img.px[y][x]]].img

\* C8: during and after composition the canvas is img.w * TileSize wide and
\* img.h * TileSize high; the region of every pixel composed so far equals,
\* cell for cell, the tile matched to its colour; and no cell has been written
\* twice.
C8_CanvasIsTiled ==
    pc = "compose" =>
        /\ mosaic.w = img.w * TileSize
        /\ mosaic.h = img.h * TileSize
        /\ overwrites = 0
        /\ \A k \in 0 .. pos - 1 :
              LET x == k % img.w
                  y == k \div img.w
              IN  \A i \in 0 .. TileSize - 1, j \in 0 .. TileSize - 1 :
                     mosaic.px[y * TileSize + j][x * TileSize + i] = TileAt(x, y).px[j][i]

\* A 2 x 1 image was composed from two different tiles into a 4 x 2 canvas.
C8_Witness ==
    /\ pc = "compose"
    /\ pos = img.w * img.h
    /\ img.w # img.h
    /\ Cardinality(DOMAIN tiles) = 2
    /\ TileAt(0, 0) # TileAt(1, 0)
    /\ painted = Coords(mosaic)

DistinctColours == {img.px[c[2]][c[1]] : c \in Coords(img)}

\* C10: while an image is matched, the calls of pick_image_for_pixel made and the
\* colours still to be matched add up to the number of distinct colours of the
\* image; when its canvas is allocated exactly that many calls have been made;
\* and the canvas of an image of one colour is composed of one tile only.
C10_OneMatchPerColour ==
    /\ pc = "match" =>
          matchCalls + BagCardinality(unique_pixels) = Cardinality(DistinctColours)
    /\ pc = "compose" =>
          /\ matchCalls = Cardinality(DistinctColours)
          /\ Cardinality(DistinctColours) = 1 =>
                /\ matchCalls = 1
                /\ \A k \in 0 .. pos - 1 :
                      \A c \in Coords(TileAt(0, 0)) :
                         mosaic.px[(k \div img.w) * TileSize + c[2]][(k % img.w) * TileSize + c[1]]
                            = TileAt(0, 0).px[c[2]][c[1]]

\* An image of four pixels and two colours was matched with two calls.
C10_Witness ==
    /\ pc = "compose"
    /\ img.w * img.h = 4
    /\ Cardinality(DistinctColours) = 2
    /\ matchCalls = 2

====
